---- MODULE Spec2Model ----
(***************************************************************************)
(* Model of movingpandas/trajectory_plotter.py: the single-trajectory      *)
(* styler (_TrajectoryPlotter) and the collection styler                   *)
(* (_TrajectoryCollectionPlotter).  A styler is constructed from caller    *)
(* keyword options and trajectory data; plot() and hvplot() are then       *)
(* called on it in any order.  Every call to a renderer is recorded with   *)
(* the keyword arguments it receives.                                      *)
(***************************************************************************)
EXTENDS Integers, Sequences, FiniteSets, TLC

VARIABLES
  kind,      \* "single" (_TrajectoryPlotter) or "collection" (_TrajectoryCollectionPlotter)
  given,     \* the constructor's inputs: [kwargs, data], never changed
  trajs,     \* the caller-owned trajectories (self.data), in collection order
  styler,    \* the styler's fields
  defaults,  \* the renderer's global overlay options (opts.defaults)
  last,      \* the most recent entry-point invocation: inputs, calls, outcome
  ncalls     \* number of entry-point invocations so far

vars == <<kind, given, trajs, styler, defaults, last, ncalls>>

\* ------------------------------------------------------------------ bounds
MaxMembers == 2
MaxCalls == 2

\* ------------------------------------------------------- program constants
DefaultWidth == 900
DefaultHeight == 700
DefaultMarkerSize == 200
DefaultLineWidth == 3

\* Python None for string-valued fields; None for numeric fields is <<>>
\* and a present number v is <<v>>.
NoneV == "None"
NoNum == <<>>
Some(v) == <<v>>
\* hvplot_tiles is a tile-source name or Python False.
TilesOff == "False"
DefaultTiles == "OSM"
Grey == "grey"
SpeedCol == "speed"
DirectionCol == "direction"
AngleCol == "triangle_angle"

NoErr == [type |-> "none", msg |-> ""]
MissingDependenciesMessage ==
  "Missing optional dependencies. To use interactive plotting, install hvplot and GeoViews (see https://hvplot.holoviz.org/getting_started/installation.html and https://geoviews.org)."
ImportError == [type |-> "ImportError", msg |-> MissingDependenciesMessage]
KeyError == [type |-> "KeyError", msg |-> ""]
IndexError == [type |-> "IndexError", msg |-> ""]
TypeError == [type |-> "TypeError", msg |-> "got multiple values for keyword argument"]

\* ------------------------------------------------------------ dict helpers
EmptyDict == [x \in {} |-> 0]
Has(d, k) == k \in DOMAIN d
Get(d, k, dflt) == IF k \in DOMAIN d THEN d[k] ELSE dflt
Pop(d, k) == [x \in DOMAIN d \ {k} |-> d[x]]
Put(d, k, v) == [x \in DOMAIN d \cup {k} |-> IF x = k THEN v ELSE d[x]]
\* f(**a, **b) with disjoint keys
Merge(a, b) == [x \in DOMAIN a \cup DOMAIN b |-> IF x \in DOMAIN a THEN a[x] ELSE b[x]]

\* ---------------------------------------------------------- series helpers
\* A column is the sequence of its values, in row order.
Values(s) == {s[j] : j \in 1..Len(s)}
Min(s) == CHOOSE x \in Values(s) : \A y \in Values(s) : x <= y
Max(s) == CHOOSE x \in Values(s) : \A y \in Values(s) : x >= y
Tail1(s) == <<s[Len(s)]>>

\* ------------------------------------------------------------- trajectories
\* What add_speed(overwrite=True) computes for member i from its positions.
ComputedSpeed(i) == <<i, i + 1>>
\* What add_direction computes for member i.
ComputedDirection(i) == <<0, 90 * i>>
\* Sample tables: member i carries a "val" column, and optionally a stored
\* speed column (its values need not equal the recomputed ones) and a
\* stored direction column.
MakeTraj(i, hasSpeed, hasDirection) ==
  [id |-> i,
   df |-> Merge(Merge([val |-> <<i, i + 1>>],
                      IF hasSpeed THEN [speed |-> <<i + 2, i>>] ELSE EmptyDict),
                IF hasDirection THEN [direction |-> <<0, 45 * i>>] ELSE EmptyDict)]

RECURSIVE CollectionsOfLen(_)
CollectionsOfLen(n) ==
  IF n = 0 THEN {<<>>}
  ELSE {Append(c, MakeTraj(n, s, d)) :
          c \in CollectionsOfLen(n - 1), s \in BOOLEAN, d \in BOOLEAN}

\* A single styler's data is one trajectory, a collection styler's a
\* non-empty collection.
SingleData == CollectionsOfLen(1)
CollectionData == UNION {CollectionsOfLen(n) : n \in 1..MaxMembers}

\* ------------------------------------------------------- caller's options
\* An optional keyword: <<>> when the caller does not pass it, <<v>> when
\* the caller passes v.
OptKey(k, o) == IF o = <<>> THEN EmptyDict ELSE [x \in {k} |-> o[1]]

ColormapA == [x \in {2, 3} |-> IF x = 2 THEN "red" ELSE "blue"]
ColormapB == [x \in {4} |-> "green"]

\* color-by-column with, optionally, a value-to-color mapping
ColorChoices ==
  {<<col, cm>> : col \in {<<SpeedCol>>, <<"val">>},
                 cm \in {<<>>, <<ColormapA>>, <<ColormapB>>}} \cup {<< <<>>, <<>> >>}
VminChoices == {<<>>, <<0>>}
VmaxChoices == {<<>>, <<9>>}
LegendChoices == {<<>>, <<TRUE>>}
TilesChoices == {<<>>, <<"CartoLight">>, <<TilesOff>>}
HoverChoices == {<<>>, << <<"val">> >>}
MarkerColorChoices == {<<>>, <<"orange">>}

MakeKwargs(cc, lo, hi, lg, ti, hc, mc) ==
  Merge(OptKey("column", cc[1]),
  Merge(OptKey("colormap", cc[2]),
  Merge(OptKey("vmin", lo),
  Merge(OptKey("vmax", hi),
  Merge(OptKey("legend", lg),
  Merge(OptKey("tiles", ti),
  Merge(OptKey("hover_cols", hc), OptKey("marker_color", mc))))))))

\* Callers that pass options of the static renderer, callers that pass
\* options of the interactive renderer, and callers that pass all of them.
StaticKwargs ==
  {MakeKwargs(cc, lo, hi, lg, <<>>, <<>>, <<>>) :
     cc \in ColorChoices, lo \in VminChoices, hi \in VmaxChoices, lg \in LegendChoices}
InteractiveKwargs ==
  {MakeKwargs(cc, <<>>, <<>>, <<>>, ti, hc, mc) :
     cc \in ColorChoices, ti \in TilesChoices, hc \in HoverChoices,
     mc \in MarkerColorChoices}
MixedKwargs ==
  {MakeKwargs(cc, <<0>>, <<9>>, <<TRUE>>, ti, << <<"val">> >>, <<"orange">>) :
     cc \in ColorChoices, ti \in TilesChoices \ {<<>>}}
CallerKwargs == StaticKwargs \cup InteractiveKwargs \cup MixedKwargs

\* ------------------------------------------------- _TrajectoryPlotter.__init__
PlotterInit(kw) ==
  LET k1 == Pop(Pop(Pop(kw, "width"), "height"), "figsize")
      column0 == Get(k1, "column", NoneV)
      k2 == Pop(k1, "ax")
      colormap0 == Get(k2, "colormap", EmptyDict)
      k3 == Pop(Pop(k2, "colormap"), "column_to_color")
      k4 == Pop(Pop(k3, "geo"), "tiles")
      k5 == Pop(Pop(Pop(k4, "marker_size"), "marker_color"), "line_width")
  IN  [kwargs |-> k5,
       width |-> Get(kw, "width", DefaultWidth),
       height |-> Get(kw, "height", DefaultHeight),
       column |-> Get(k1, "c", column0),
       ax |-> Get(k1, "ax", NoneV),
       colormap |-> Get(k2, "column_to_color", colormap0),
       min_value |-> IF Has(k5, "vmin") THEN Some(k5["vmin"]) ELSE NoNum,
       max_value |-> IF Has(k5, "vmax") THEN Some(k5["vmax"]) ELSE NoNum,
       overlay |-> <<>>,
       hvplot_is_geo |-> Get(k3, "geo", TRUE),
       hvplot_tiles |-> Get(k3, "tiles", DefaultTiles),
       marker_size |-> Get(k4, "marker_size", DefaultMarkerSize),
       marker_color |-> Get(k4, "marker_color", NoneV),
       line_width |-> Get(k4, "line_width", DefaultLineWidth),
       speeds |-> <<>>]

\* ----------------------------------------------------- one invocation's run
\* The state an entry point works on: the styler, the caller's
\* trajectories, the renderer's global overlay options, the renderer calls
\* issued so far, the exception raised (if any) and the values returned.
Raise(m, e) == [m EXCEPT !.err = e]

\* f(**explicit, **kw): a keyword given twice is a TypeError; otherwise the
\* renderer is called with the merged keywords.
Call(m, fn, shape, i, df, explicit, kw) ==
  IF DOMAIN explicit \cap DOMAIN kw # {}
    THEN Raise(m, TypeError)
    ELSE [m EXCEPT !.calls = Append(@, [fn |-> fn, shape |-> shape, member |-> i,
                                        df |-> df, args |-> Merge(explicit, kw)])]

\* self.colormap[traj.df[self.column].max()] under try/except KeyError:
\* a missing column and a missing mapping key both raise KeyError.
ResolveColor(st, traj) ==
  IF Has(traj.df, st.column) /\ Has(st.colormap, Max(traj.df[st.column]))
    THEN st.colormap[Max(traj.df[st.column])]
    ELSE Grey

make_line_df(st, traj) ==
  LET temp == IF st.column # NoneV /\ st.column = SpeedCol /\ ~Has(traj.df, SpeedCol)
                THEN [traj EXCEPT !.df = Put(@, SpeedCol, ComputedSpeed(traj.id))]
                ELSE traj
  IN  temp.df

\* Mutant: the direction column computed for the end marker is left on the
\* caller's trajectory.
get_trajectory_end_leaving_direction(traj) ==
  LET withDir == IF Has(traj.df, DirectionCol) THEN traj.df
                 ELSE Put(traj.df, DirectionCol, ComputedDirection(traj.id))
      row == [c \in DOMAIN withDir |-> Tail1(withDir[c])]
      tmp == Put(row, AngleCol, <<row[DirectionCol][1] * (-1)>>)
  IN  [traj |-> [traj EXCEPT !.df = withDir], tmp |-> tmp]

get_trajectory_end_with_direction(traj) ==
  LET direction_exists == Has(traj.df, DirectionCol)
      withDir == IF direction_exists THEN traj.df
                 ELSE Put(traj.df, DirectionCol, ComputedDirection(traj.id))
      row == [c \in DOMAIN withDir |-> Tail1(withDir[c])]
      tmp == Put(row, AngleCol, <<row[DirectionCol][1] * (-1)>>)
      after == IF ~direction_exists THEN Pop(withDir, DirectionCol) ELSE withDir
  IN  [traj |-> [traj EXCEPT !.df = after], tmp |-> tmp]

plot_trajectory(m, traj, i) ==
  LET st == m.st
      line_df == make_line_df(st, traj)
  IN  IF st.column # NoneV /\ st.colormap # EmptyDict
        THEN Call(m, "plot", "line", i, line_df,
                  [ax |-> st.ax, color |-> ResolveColor(st, traj)], st.kwargs)
        ELSE LET kw == Pop(Pop(st.kwargs, "vmin"), "vmax")
             IN  Call([m EXCEPT !.st.kwargs = kw], "plot", "line", i, line_df,
                      [ax |-> st.ax, vmin |-> st.min_value, vmax |-> st.max_value], kw)

hvplot_end_triangle(m, i) ==
  LET st == m.st
      k1 == Pop(st.kwargs, "tiles")
      hover_cols == Get(k1, "hover_cols", <<>>)
      k2 == Put(k1, "hover_cols", <<AngleCol>>)
      k3 == IF hover_cols # <<>>
              THEN Put(k2, "hover_cols", k2["hover_cols"] \o hover_cols) ELSE k2
      k4 == IF st.marker_color # NoneV THEN Put(k3, "color", st.marker_color) ELSE k3
      k5 == IF st.column # NoneV
              THEN Put(k4, "hover_cols", k4["hover_cols"] \o <<st.column>>) ELSE k4
      r == get_trajectory_end_with_direction(m.data[i])
  IN  Call([m EXCEPT !.st.kwargs = k5, !.data[i] = r.traj],
           "hvplot", "triangle", i, r.tmp,
           [geo |-> st.hvplot_is_geo, tiles |-> NoneV, marker |-> "triangle",
            angle |-> AngleCol, size |-> st.marker_size], k5)

hvplot_trajectory(m, i) ==
  LET st == m.st
      traj == m.data[i]
      line_gdf == make_line_df(st, traj)
      kw == IF Has(st.kwargs, "colorbar") THEN st.kwargs
            ELSE Put(st.kwargs, "colorbar", TRUE)
      m1 == IF st.column # NoneV /\ st.colormap # EmptyDict
              THEN IF ~Has(traj.df, st.column)
                     THEN Raise(m, KeyError)
                     ELSE Call(m, "hvplot", "line", i, line_gdf,
                               [color |-> ResolveColor(st, traj),
                                line_width |-> st.line_width,
                                geo |-> st.hvplot_is_geo,
                                tiles |-> st.hvplot_tiles,
                                label |-> Max(traj.df[st.column])], st.kwargs)
              ELSE Call([m EXCEPT !.st.kwargs = kw], "hvplot", "line", i, line_gdf,
                        [line_width |-> st.line_width, geo |-> st.hvplot_is_geo,
                         tiles |-> st.hvplot_tiles], kw)
      m2 == IF m1.err # NoErr THEN m1 ELSE hvplot_end_triangle(m1, i)
  IN  IF m2.err # NoErr THEN m2
      ELSE [m2 EXCEPT !.overlay = <<[member |-> i, layers |-> <<"line", "triangle">>]>>]

\* --------------------------------------------- _TrajectoryPlotter entry points
TrajectoryPlotter_plot(m) ==
  LET m1 == IF m.st.ax = NoneV THEN [m EXCEPT !.st.ax = "Axes"] ELSE m
      m2 == plot_trajectory(m1, m1.data[1], 1)
  IN  IF m2.err # NoErr THEN m2
      ELSE [m2 EXCEPT !.st.kwargs = Pop(Put(@, "legend", FALSE), "column"),
                      !.ax = m2.st.ax]

\* Mutant: the overlay options are configured before the import is checked.
hvplot_prologue_configuring_first(m, available) ==
  LET m1 == [m EXCEPT !.defaults = [width |-> m.st.width, height |-> m.st.height,
                                    active_tools |-> <<"wheel_zoom">>],
                      !.configured = TRUE]
  IN  IF ~available THEN Raise(m1, ImportError) ELSE m1

\* The import check and opts.defaults(opts.Overlay(...)) both hvplot()
\* methods start with; available is whether hvplot.pandas and
\* holoviews.opts can be imported.
hvplot_prologue(m, available) ==
  IF ~available THEN Raise(m, ImportError)
  ELSE [m EXCEPT !.defaults = [width |-> m.st.width, height |-> m.st.height,
                               active_tools |-> <<"wheel_zoom">>],
                 !.configured = TRUE]

TrajectoryPlotter_hvplot(m, available) ==
  LET m1 == hvplot_prologue(m, available)
  IN  IF m1.err # NoErr THEN m1 ELSE hvplot_trajectory(m1, 1)

\* ------------------------------------------------ _TrajectoryCollectionPlotter
\* TrajectoryCollection.get_min / get_max: the aggregate over every member's
\* column; a member without the column makes the lookup fail.
collection_get_min(data, column) ==
  IF \E i \in 1..Len(data) : ~Has(data[i].df, column)
    THEN [err |-> KeyError, value |-> 0]
    ELSE [err |-> NoErr,
          value |-> Min([i \in 1..Len(data) |-> Min(data[i].df[column])])]

collection_get_max(data, column) ==
  IF \E i \in 1..Len(data) : ~Has(data[i].df, column)
    THEN [err |-> KeyError, value |-> 0]
    ELSE [err |-> NoErr,
          value |-> Max([i \in 1..Len(data) |-> Max(data[i].df[column])])]

\* Appends every member's recomputed speed series to self._speeds and
\* returns the extremes over the whole cache.
get_min_max_speed(m) ==
  LET computed == [i \in 1..Len(m.data) |->
                     Put(m.data[i].df, SpeedCol, ComputedSpeed(m.data[i].id))[m.st.column]]
      speeds == m.st.speeds \o computed
  IN  [m EXCEPT !.st.speeds = speeds,
                !.scale = <<Min([j \in 1..Len(speeds) |-> Min(speeds[j])]),
                            Max([j \in 1..Len(speeds) |-> Max(speeds[j])])>>]

\* Mutant: the computed extremes replace the caller's vmin and vmax.
get_min_max_values_overriding(m) ==
  LET st == m.st
      lo == collection_get_min(m.data, st.column)
      hi == collection_get_max(m.data, st.column)
      m1 == IF st.column = SpeedCol /\ st.column \notin DOMAIN m.data[1].df
              THEN get_min_max_speed(m)
              ELSE IF lo.err # NoErr THEN Raise(m, lo.err)
              ELSE IF hi.err # NoErr THEN Raise(m, hi.err)
              ELSE [m EXCEPT !.scale = <<lo.value, hi.value>>]
  IN  IF m1.err # NoErr THEN m1
      ELSE [m1 EXCEPT !.st.min_value = Some(m1.scale[1]),
                      !.st.max_value = Some(m1.scale[2]),
                      !.st.kwargs = Pop(Pop(@, "vmin"), "vmax")]

get_min_max_values(m) ==
  LET st == m.st
      column_names == DOMAIN m.data[1].df
      lo == collection_get_min(m.data, st.column)
      hi == collection_get_max(m.data, st.column)
      m1 == IF st.column = SpeedCol /\ st.column \notin column_names
              THEN get_min_max_speed(m)
              ELSE IF lo.err # NoErr THEN Raise(m, lo.err)
              ELSE IF hi.err # NoErr THEN Raise(m, hi.err)
              ELSE [m EXCEPT !.scale = <<lo.value, hi.value>>]
  IN  IF m1.err # NoErr THEN m1
      ELSE [m1 EXCEPT !.st.min_value = Some(Get(m1.st.kwargs, "vmin", m1.scale[1])),
                      !.st.max_value = Some(Get(m1.st.kwargs, "vmax", m1.scale[2])),
                      !.st.kwargs = Pop(Pop(@, "vmin"), "vmax")]

\* Mutant: the legend option is not disabled after a member is rendered.
plot_member_keeping_legend(m, i) ==
  LET st == m.st
      traj == m.data[i]
  IN  IF st.column = SpeedCol /\ ~Has(traj.df, st.column)
        THEN IF i > Len(st.speeds)
               THEN Raise(m, IndexError)
               ELSE plot_trajectory(
                      m, [traj EXCEPT !.df = Put(@, st.column, st.speeds[i])], i)
        ELSE plot_trajectory(m, traj, i)

\* One iteration of plot()'s loop, for member i.
plot_member(m, i) ==
  LET st == m.st
      traj == m.data[i]
      m1 == IF st.column = SpeedCol /\ ~Has(traj.df, st.column)
              THEN IF i > Len(st.speeds)
                     THEN Raise(m, IndexError)
                     ELSE plot_trajectory(
                            m, [traj EXCEPT !.df = Put(@, st.column, st.speeds[i])], i)
              ELSE plot_trajectory(m, traj, i)
  IN  IF m1.err # NoErr THEN m1
      ELSE [m1 EXCEPT !.st.kwargs = Put(@, "legend", FALSE)]

RECURSIVE plot_members(_, _)
plot_members(m, i) ==
  IF m.err # NoErr \/ i > Len(m.data) THEN m
  ELSE plot_members(plot_member(m, i), i + 1)

TrajectoryCollectionPlotter_plot(m) ==
  LET m1 == IF m.st.column # NoneV THEN get_min_max_values(m) ELSE m
      m2 == IF m1.err # NoErr \/ m1.st.ax # NoneV THEN m1
            ELSE [m1 EXCEPT !.st.ax = "Axes"]
      m3 == plot_members(m2, 1)
  IN  IF m3.err # NoErr THEN m3 ELSE [m3 EXCEPT !.ax = m3.st.ax]

\* Mutant: the tile option is not disabled after the first member.
hvplot_member_keeping_tiles(m, i) ==
  LET m1 == hvplot_trajectory(m, i)
  IN  IF m1.err # NoErr THEN m1
      ELSE [m1 EXCEPT !.st.overlay = IF @ # <<>> THEN @ \o m1.overlay ELSE m1.overlay]

\* One iteration of hvplot()'s loop, for member i.
hvplot_member(m, i) ==
  LET m1 == hvplot_trajectory(m, i)
  IN  IF m1.err # NoErr THEN m1
      ELSE [m1 EXCEPT !.st.overlay = IF @ # <<>> THEN @ \o m1.overlay ELSE m1.overlay,
                      !.st.hvplot_tiles = TilesOff]

RECURSIVE hvplot_members(_, _)
hvplot_members(m, i) ==
  IF m.err # NoErr \/ i > Len(m.data) THEN m
  ELSE hvplot_members(hvplot_member(m, i), i + 1)

TrajectoryCollectionPlotter_hvplot(m, available) ==
  LET m1 == hvplot_prologue(m, available)
      m2 == hvplot_members(m1, 1)
  IN  IF m2.err # NoErr THEN [m2 EXCEPT !.overlay = <<>>]
      ELSE [m2 EXCEPT !.overlay = m2.st.overlay]

\* ------------------------------------------------------------ state machine
NoInvocation ==
  [op |-> "none", available |-> TRUE, entry |-> styler, calls |-> <<>>,
   configured |-> FALSE, err |-> NoErr, scale |-> <<>>, overlay |-> <<>>,
   ax |-> NoneV, plots |-> 0, hvplots |-> 0]

Init ==
  /\ kind \in {"single", "collection"}
  /\ \E kw \in CallerKwargs :
       \E data \in (IF kind = "single" THEN SingleData ELSE CollectionData) :
         /\ given = [kwargs |-> kw, data |-> data]
         /\ trajs = data
         /\ styler = PlotterInit(kw)
  /\ defaults = EmptyDict
  /\ ncalls = 0
  /\ last = NoInvocation

\* The run an entry point starts from.
Enter ==
  [st |-> styler, data |-> trajs, defaults |-> defaults, calls |-> <<>>,
   configured |-> FALSE, err |-> NoErr, scale |-> <<>>, overlay |-> <<>>,
   ax |-> NoneV]

\* The state an entry point leaves behind, whether it returned or raised.
Leave(op, available, m) ==
  /\ styler' = m.st
  /\ trajs' = m.data
  /\ defaults' = m.defaults
  /\ last' = [op |-> op, available |-> available, entry |-> styler,
              calls |-> m.calls, configured |-> m.configured,
              err |-> m.err, scale |-> m.scale,
              overlay |-> m.overlay, ax |-> m.ax,
              plots |-> last.plots + (IF op = "plot" THEN 1 ELSE 0),
              hvplots |-> last.hvplots + (IF op = "hvplot" THEN 1 ELSE 0)]
  /\ ncalls' = ncalls + 1
  /\ UNCHANGED <<kind, given>>

Plot ==
  /\ kind = "single"
  /\ ncalls < MaxCalls
  /\ Leave("plot", TRUE, TrajectoryPlotter_plot(Enter))

HvPlot ==
  /\ kind = "single"
  /\ ncalls < MaxCalls
  /\ \E available \in BOOLEAN :
       Leave("hvplot", available, TrajectoryPlotter_hvplot(Enter, available))

CollectionPlot ==
  /\ kind = "collection"
  /\ ncalls < MaxCalls
  /\ Leave("plot", TRUE, TrajectoryCollectionPlotter_plot(Enter))

CollectionHvPlot ==
  /\ kind = "collection"
  /\ ncalls < MaxCalls
  /\ \E available \in BOOLEAN :
       Leave("hvplot", available, TrajectoryCollectionPlotter_hvplot(Enter, available))

Next == Plot \/ HvPlot \/ CollectionPlot \/ CollectionHvPlot

Spec == Init /\ [][Next]_vars

\* ------------------------------------------------------------------ claims
\* Shorthands for the most recent invocation.
IsPlot == last.op = "plot"
IsHvPlot == last.op = "hvplot" /\ last.available
Returned == last.err = NoErr
Members == 1..Len(trajs)
Column == last.entry.column
Mapping == last.entry.colormap
CallsOf(shape) == {j \in 1..Len(last.calls) : last.calls[j].shape = shape}
CallOf(shape, i) ==
  {j \in CallsOf(shape) : last.calls[j].member = i}
NoDuplicates(s) == \A a, b \in 1..Len(s) : s[a] = s[b] => a = b

\* The values of column col that member i is drawn with: the stored column,
\* or the recomputed speed when the trajectory has none.
ColumnOf(i, col) ==
  IF Has(given.data[i].df, col) THEN given.data[i].df[col] ELSE ComputedSpeed(i)
TrueMin(col) == Min([i \in Members |-> Min(ColumnOf(i, col))])
TrueMax(col) == Max([i \in Members |-> Max(ColumnOf(i, col))])

\* C1: in a collection plot() with a color-by-column, no mapping and no
\* caller-supplied vmin/vmax, get_min_max_values returns the true minimum and
\* maximum of the column over all members, and every member's line-plot call
\* receives exactly that pair as vmin and vmax.
C1_SharedScale ==
  (kind = "collection" /\ IsPlot /\ Column # NoneV /\ Mapping = EmptyDict
     /\ ~Has(given.kwargs, "vmin") /\ ~Has(given.kwargs, "vmax"))
  => /\ last.scale = <<TrueMin(Column), TrueMax(Column)>>
     /\ \A i \in Members :
          \E j \in CallOf("line", i) :
            /\ last.calls[j].args["vmin"] = Some(TrueMin(Column))
            /\ last.calls[j].args["vmax"] = Some(TrueMax(Column))

\* C2 (as stated): in a collection plot() with a color-by-column, the
\* computed collection minimum and maximum override caller-supplied vmin and
\* vmax: min_value/max_value are the computed values, not the caller's.
C2_ComputedOverridesCaller ==
  (kind = "collection" /\ IsPlot /\ Column # NoneV /\ last.scale # <<>>
     /\ (Has(given.kwargs, "vmin") \/ Has(given.kwargs, "vmax")))
  => /\ styler.min_value = Some(last.scale[1])
     /\ styler.max_value = Some(last.scale[2])
     /\ \A j \in CallsOf("line") :
          Has(last.calls[j].args, "vmin") =>
            /\ last.calls[j].args["vmin"] = Some(last.scale[1])
            /\ last.calls[j].args["vmax"] = Some(last.scale[2])

\* C2 (amended): whenever get_min_max_values completes in a collection
\* plot(), each of min_value/max_value is the bag's vmin/vmax entry if the bag
\* holds one at entry (the caller's value, in the first plot() invocation) and
\* the computed collection minimum/maximum otherwise; the bag then holds
\* neither key, and every line-plot call made without a mapping receives
\* min_value and max_value as vmin and vmax.
C2_CallerBoundsWin ==
  (kind = "collection" /\ IsPlot /\ Column # NoneV /\ last.scale # <<>>)
  => /\ styler.min_value = Some(Get(last.entry.kwargs, "vmin", last.scale[1]))
     /\ styler.max_value = Some(Get(last.entry.kwargs, "vmax", last.scale[2]))
     /\ ~Has(styler.kwargs, "vmin") /\ ~Has(styler.kwargs, "vmax")
     /\ last.plots = 1 =>
          /\ Has(last.entry.kwargs, "vmin") <=> Has(given.kwargs, "vmin")
          /\ Has(last.entry.kwargs, "vmax") <=> Has(given.kwargs, "vmax")
          /\ Has(given.kwargs, "vmin") => last.entry.kwargs["vmin"] = given.kwargs["vmin"]
          /\ Has(given.kwargs, "vmax") => last.entry.kwargs["vmax"] = given.kwargs["vmax"]
     /\ Mapping = EmptyDict =>
          \A j \in CallsOf("line") :
            /\ last.calls[j].args["vmin"] = styler.min_value
            /\ last.calls[j].args["vmax"] = styler.max_value

\* C2 witness: a first collection plot() where the caller's vmin wins over the computed minimum and vmax is computed.
C2_Witness ==
  /\ kind = "collection" /\ IsPlot /\ Returned /\ last.plots = 1
  /\ Column = SpeedCol /\ Mapping = EmptyDict
  /\ Has(given.kwargs, "vmin") /\ ~Has(given.kwargs, "vmax")
  /\ Len(trajs) >= 2 /\ Len(last.calls) = Len(trajs)
  /\ styler.min_value = Some(given.kwargs["vmin"])
  /\ styler.min_value # Some(last.scale[1])
  /\ styler.max_value = Some(last.scale[2])

\* C3: hvplot() without the interactive capability fails with the
\* ImportError naming hvplot and GeoViews, before any render call, any
\* overlay-options configuration and any change to the styler.
C3_MissingCapability ==
  (last.op = "hvplot" /\ ~last.available)
  => /\ last.err = ImportError
     /\ last.calls = <<>>
     /\ ~last.configured
     /\ styler = last.entry

\* C3 witness: an hvplot() that failed for the missing capability on a styler that had rendered before.
C3_Witness ==
  /\ last.op = "hvplot" /\ ~last.available /\ last.err = ImportError
  /\ kind = "collection" /\ styler.overlay # <<>>

\* C4: with a color-by-column and a mapping, every line render (static or
\* interactive) gets the mapping's color for the maximum of the column the
\* trajectory is drawn with, gray exactly when the mapping lacks that value,
\* and no exception is raised.
C4_ColorFromMapping ==
  ((IsPlot \/ IsHvPlot) /\ Column # NoneV /\ Mapping # EmptyDict)
  => /\ Returned
     /\ \A j \in CallsOf("line") :
          LET mx == Max(last.calls[j].df[Column])
          IN  last.calls[j].args["color"] =
                IF Has(Mapping, mx) THEN Mapping[mx] ELSE Grey

\* C5: after any sequence of plot() and hvplot() calls every caller-owned
\* trajectory has the columns it had at construction: no speed column is
\* left behind, a direction column is removed iff it was absent before.
C5_ColumnsRestored ==
  /\ Len(trajs) = Len(given.data)
  /\ \A i \in Members : DOMAIN trajs[i].df = DOMAIN given.data[i].df

\* C5 witness: a collection hvplot() colored by speed that drew an end marker for members with and without a direction column.
C5_Witness ==
  /\ kind = "collection" /\ IsHvPlot /\ Returned /\ ncalls = 2
  /\ Column = SpeedCol
  /\ Len(last.calls) = 2 * Len(trajs)
  /\ \E i \in Members : ~Has(given.data[i].df, DirectionCol) /\ ~Has(given.data[i].df, SpeedCol)
  /\ \E i \in Members : Has(given.data[i].df, DirectionCol)
  /\ \A i \in Members :
       \E j \in CallOf("triangle", i) : Has(last.calls[j].df, DirectionCol)

\* C6 (as stated): in every collection plot() invocation the first member's
\* render call receives the caller's legend option unchanged and legend is
\* False for every later member; after a single plot() returns the bag's
\* legend is False.
C6_FirstMemberGetsCallerLegend ==
  /\ (kind = "collection" /\ IsPlot) =>
       /\ \A j \in CallOf("line", 1) :
            /\ Has(last.calls[j].args, "legend") <=> Has(given.kwargs, "legend")
            /\ Has(given.kwargs, "legend") =>
                 last.calls[j].args["legend"] = given.kwargs["legend"]
       /\ \A j \in CallsOf("line") :
            last.calls[j].member >= 2 =>
              Has(last.calls[j].args, "legend") /\ last.calls[j].args["legend"] = FALSE
  /\ (kind = "single" /\ IsPlot /\ Returned) =>
       Has(styler.kwargs, "legend") /\ styler.kwargs["legend"] = FALSE

\* C6 (amended): in every collection plot() invocation the first member's
\* render call receives the legend option the bag holds at entry, which is
\* the caller's option, unchanged, in the first plot() invocation on the
\* styler; legend is False for every render call of member 2 onward and in
\* the bag after any member was rendered; after a single plot() returns the
\* bag's legend is False.
C6_LegendSuppression ==
  /\ (kind = "collection" /\ IsPlot) =>
       /\ \A j \in CallOf("line", 1) :
            /\ Has(last.calls[j].args, "legend") <=> Has(last.entry.kwargs, "legend")
            /\ Has(last.entry.kwargs, "legend") =>
                 last.calls[j].args["legend"] = last.entry.kwargs["legend"]
            /\ last.plots = 1 =>
                 /\ Has(last.calls[j].args, "legend") <=> Has(given.kwargs, "legend")
                 /\ Has(given.kwargs, "legend") =>
                      last.calls[j].args["legend"] = given.kwargs["legend"]
       /\ \A j \in CallsOf("line") :
            last.calls[j].member >= 2 =>
              Has(last.calls[j].args, "legend") /\ last.calls[j].args["legend"] = FALSE
       /\ last.calls # <<>> =>
            Has(styler.kwargs, "legend") /\ styler.kwargs["legend"] = FALSE
  /\ (kind = "single" /\ IsPlot /\ Returned) =>
       Has(styler.kwargs, "legend") /\ styler.kwargs["legend"] = FALSE

\* C6 witness: a first collection plot() whose first member got the caller's legend=True and whose second got False.
C6_Witness ==
  /\ kind = "collection" /\ IsPlot /\ Returned /\ last.plots = 1
  /\ Has(given.kwargs, "legend") /\ given.kwargs["legend"] = TRUE
  /\ Len(trajs) >= 2 /\ Len(last.calls) = Len(trajs)
  /\ last.calls[1].args["legend"] = TRUE
  /\ last.calls[2].args["legend"] = FALSE

\* C7 (as stated): in collection hvplot(), for any caller-supplied tile
\* option, member 1's line render gets the configured tile option (the
\* caller's or "OSM"), every member N >= 2 gets False, which differs from
\* member 1's, and every end-marker render is issued with no tiles.
C7_TilesFirstMemberOnly ==
  (kind = "collection" /\ IsHvPlot) =>
    /\ \A j \in CallOf("line", 1) :
         last.calls[j].args["tiles"] = Get(given.kwargs, "tiles", DefaultTiles)
    /\ \A j \in CallsOf("line") :
         last.calls[j].member >= 2 =>
           /\ last.calls[j].args["tiles"] = TilesOff
           /\ \A k \in CallOf("line", 1) :
                last.calls[j].args["tiles"] # last.calls[k].args["tiles"]
    /\ \A j \in CallsOf("triangle") : last.calls[j].args["tiles"] = NoneV

\* C7 (amended): in collection hvplot(), member 1's line render gets the
\* styler's tile option at entry: the configured one (the caller's or "OSM")
\* as long as the styler has not rendered a member interactively before, and
\* False afterwards; every member N >= 2 gets False, which differs from
\* member 1's exactly when member 1's is not False itself; every end-marker
\* render is issued with no tiles.
C7_TilesSuppression ==
  (kind = "collection" /\ IsHvPlot) =>
    /\ \A j \in CallOf("line", 1) :
         /\ last.calls[j].args["tiles"] = last.entry.hvplot_tiles
         /\ last.entry.overlay = <<>> =>
              last.calls[j].args["tiles"] = Get(given.kwargs, "tiles", DefaultTiles)
         /\ last.entry.overlay # <<>> => last.calls[j].args["tiles"] = TilesOff
    /\ \A j \in CallsOf("line") :
         last.calls[j].member >= 2 =>
           /\ last.calls[j].args["tiles"] = TilesOff
           /\ \A k \in CallOf("line", 1) :
                (last.calls[j].args["tiles"] # last.calls[k].args["tiles"])
                  <=> (last.calls[k].args["tiles"] # TilesOff)
    /\ \A j \in CallsOf("triangle") : last.calls[j].args["tiles"] = NoneV

\* C7 witness: a first collection hvplot() whose first member got the caller's tiles and whose second got False.
C7_Witness ==
  /\ kind = "collection" /\ IsHvPlot /\ Returned
  /\ last.entry.overlay = <<>>
  /\ Has(given.kwargs, "tiles") /\ given.kwargs["tiles"] = "CartoLight"
  /\ Len(trajs) >= 2 /\ Len(last.calls) = 2 * Len(trajs)
  /\ last.calls[1].args["tiles"] = "CartoLight"
  /\ last.calls[3].args["tiles"] = TilesOff
  /\ last.calls[2].args["tiles"] = NoneV

\* C8: in a collection plot() colored by speed, every member i without a
\* speed column finds a cached series at position i of the cache, computed
\* from member i, in every collection and every invocation; the lookup never
\* goes out of range.
C8_CachedSpeedPerMember ==
  (kind = "collection" /\ IsPlot /\ Column = SpeedCol) =>
    /\ last.err # IndexError
    /\ \A i \in Members :
         ~Has(given.data[i].df, SpeedCol) =>
           /\ i <= Len(styler.speeds)
           /\ styler.speeds[i] = ComputedSpeed(i)

\* C9: at every render call of hvplot() the bag holds only options of that
\* call: every end-marker call gets hover columns angle, caller's, color-by-
\* column (once each, the same for every member), and no line call gets the
\* angle hover column or the marker color a previous end-marker call wrote.
C9_OnlyRelevantOptions ==
  IsHvPlot =>
    /\ \A j \in CallsOf("triangle") :
         /\ last.calls[j].args["hover_cols"] =
              <<AngleCol>> \o Get(given.kwargs, "hover_cols", <<>>)
                \o (IF Column # NoneV THEN <<Column>> ELSE <<>>)
         /\ (\A k \in 1..Len(Get(given.kwargs, "hover_cols", <<>>)) :
               given.kwargs["hover_cols"][k] # Column)
              => NoDuplicates(last.calls[j].args["hover_cols"])
    /\ \A j \in CallsOf("line") :
         /\ Has(last.calls[j].args, "hover_cols") <=> Has(given.kwargs, "hover_cols")
         /\ Has(given.kwargs, "hover_cols") =>
              last.calls[j].args["hover_cols"] = given.kwargs["hover_cols"]
         /\ (Column = NoneV \/ Mapping = EmptyDict) => ~Has(last.calls[j].args, "color")

\* C10: every collection hvplot() invocation that returns, returns an
\* overlay of exactly one line-plus-end-marker composite per member, in
\* collection order, however often hvplot() was invoked before.
C10_OneCompositePerMember ==
  (kind = "collection" /\ IsHvPlot /\ Returned) =>
    last.overlay = [i \in Members |-> [member |-> i, layers |-> <<"line", "triangle">>]]

====
